---------------------------- MODULE Spec2Model ----------------------------
(***************************************************************************)
(* State-machine model of startup_strategist.py: the eight-stage fan-out   *)
(* (parallel_map), the merge and synthesis call (final_chain) and the      *)
(* response clean-up and JSON parse of StartupStrategist.generate_strategy. *)
(*                                                                         *)
(* Texts are sequences of one-character strings wherever the code looks at *)
(* characters (the synthesis text); prompts, field values and exception    *)
(* messages, which the code only passes along, are sequences of atoms.     *)
(***************************************************************************)
EXTENDS Integers, Sequences, FiniteSets, TLC

\* ------------------------------------------------------------------------
\* Bounds of the model
\* ------------------------------------------------------------------------

\* A synthesis text is a concatenation of at most MaxPieces pieces.
MaxPieces == 4

\* ------------------------------------------------------------------------
\* Characters and text helpers
\* ------------------------------------------------------------------------

\* Characters removed by str.strip() (lines 176, 181): a superset of JSON's.
PyWhitespace == {" ", "\n", "\t", "\r", "\f"}

\* Characters skipped by json.loads between tokens.
JsonWhitespace == {" ", "\n", "\t", "\r"}

\* Control characters, which json.loads rejects inside a string.
ControlChars == {"\n", "\t", "\r", "\f"}

Digits == {"0", "1", "2", "3", "4", "5", "6", "7", "8", "9"}

\* The backtick character, which a TLA+ string cannot hold.
Backtick == "BACKTICK"

\* The fence markers tested at lines 177 and 179.
Opener == <<Backtick, Backtick, Backtick, "j", "s", "o", "n">>
Closer == <<Backtick, Backtick, Backtick>>

\* cleaned_result[7:] (line 178) and cleaned_result[:-3] (line 180).
OpenerCut == 7
CloserCut == 3

\* raw_result[:500] (line 191).
TruncLimit == 500

Min(S) == CHOOSE x \in S : \A y \in S : x <= y
Max(S) == CHOOSE x \in S : \A y \in S : x >= y

\* str.startswith / str.endswith
StartsWith(s, p) == Len(s) >= Len(p) /\ SubSeq(s, 1, Len(p)) = p
EndsWith(s, p) == Len(s) >= Len(p) /\ SubSeq(s, Len(s) - Len(p) + 1, Len(s)) = p

\* s[n:] and s[:-n] of Python (n > 0)
DropFirst(s, n) == SubSeq(s, n + 1, Len(s))
DropLast(s, n) == SubSeq(s, 1, Len(s) - n)

\* t occurs in s as a contiguous run
Contains(s, t) == \E i \in 1..(Len(s) - Len(t) + 1) : SubSeq(s, i, i + Len(t) - 1) = t

\* str.strip()
PyStrip(s) ==
    LET keep == {i \in 1..Len(s) : s[i] \notin PyWhitespace}
    IN  IF keep = {} THEN <<>> ELSE SubSeq(s, Min(keep), Max(keep))

\* ------------------------------------------------------------------------
\* The clean-up of lines 176-181
\* ------------------------------------------------------------------------

RemoveOpenerShort(t) == IF StartsWith(t, Opener) THEN DropFirst(t, OpenerCut - 1) ELSE t
RemoveOpener(t) == IF StartsWith(t, Opener) THEN DropFirst(t, OpenerCut) ELSE t

RemoveCloser(t) == IF EndsWith(t, Closer) THEN DropLast(t, CloserCut) ELSE t

FinalStripLeftOnly(t) ==
    LET keep == {i \in 1..Len(t) : t[i] \notin PyWhitespace}
    IN  IF keep = {} THEN <<>> ELSE SubSeq(t, Min(keep), Len(t))
FinalStrip(t) == PyStrip(t)

CleanUp(raw_result) == FinalStrip(RemoveCloser(RemoveOpener(PyStrip(raw_result))))

\* ------------------------------------------------------------------------
\* json.loads on the JSON subset the alphabet of the model can spell:
\* objects, strings without escapes, unsigned integers.  Values are records
\* of one shape so that any two can be compared.
\* ------------------------------------------------------------------------

JNum(n) == [t |-> "num", n |-> n, s |-> <<>>, kv |-> {}]
JStr(s) == [t |-> "str", n |-> 0, s |-> s, kv |-> {}]
JObj(kv) == [t |-> "obj", n |-> 0, s |-> <<>>, kv |-> kv]
JNone == [t |-> "none", n |-> 0, s |-> <<>>, kv |-> {}]

\* d[k] = v on a dict held as a set of <<key, value>> pairs: the last wins.
DictSet(kv, k, v) == {p \in kv : p[1] # k} \cup {<<k, v>>}
DictKeys(kv) == {p[1] : p \in kv}
DictGet(kv, k) == (CHOOSE p \in kv : p[1] = k)[2]

ParseFail == [ok |-> FALSE, v |-> JNone, i |-> 0]
ParseOk(v, i) == [ok |-> TRUE, v |-> v, i |-> i]

RECURSIVE SkipWs(_, _)
SkipWs(s, i) == IF i <= Len(s) /\ s[i] \in JsonWhitespace THEN SkipWs(s, i + 1) ELSE i

DigitVal(c) == CHOOSE n \in 0..9 : <<"0", "1", "2", "3", "4", "5", "6", "7", "8", "9">>[n + 1] = c

RECURSIVE NumEnd(_, _)
NumEnd(s, i) == IF i <= Len(s) /\ s[i] \in Digits THEN NumEnd(s, i + 1) ELSE i

RECURSIVE NumVal(_, _, _)
NumVal(s, i, j) == IF j < i THEN 0 ELSE 10 * NumVal(s, i, j - 1) + DigitVal(s[j])

\* s[i] is a digit: an integer without a leading zero
ParseNumber(s, i) ==
    LET e == NumEnd(s, i)
    IN  IF s[i] = "0" /\ e > i + 1 THEN ParseOk(JNum(0), i + 1)
        ELSE ParseOk(JNum(NumVal(s, i, e - 1)), e)

\* s[i] is the opening quote
ParseString(s, i) ==
    LET ends == {j \in (i + 1)..Len(s) : s[j] = "\""}
    IN  IF ends = {} THEN ParseFail
        ELSE LET j == Min(ends)
             IN  IF \E k \in (i + 1)..(j - 1) : s[k] \in ControlChars \/ s[k] = "\\"
                 THEN ParseFail
                 ELSE ParseOk(JStr(SubSeq(s, i + 1, j - 1)), j + 1)

RECURSIVE ParseValue(_, _)
RECURSIVE ParseMembers(_, _, _)

\* the value starting at s[i]
ParseValue(s, i) ==
    IF i > Len(s) THEN ParseFail
    ELSE IF s[i] = "\"" THEN ParseString(s, i)
    ELSE IF s[i] \in Digits THEN ParseNumber(s, i)
    ELSE IF s[i] = "{"
         THEN LET j == SkipWs(s, i + 1)
              IN  IF j <= Len(s) /\ s[j] = "}" THEN ParseOk(JObj({}), j + 1)
                  ELSE ParseMembers(s, j, {})
    ELSE ParseFail

\* the members of an object from the key at s[i] on
ParseMembers(s, i, kv) ==
    IF i > Len(s) \/ s[i] # "\"" THEN ParseFail
    ELSE LET key == ParseString(s, i)
         IN  IF ~key.ok THEN ParseFail
             ELSE LET c == SkipWs(s, key.i)
                  IN  IF c > Len(s) \/ s[c] # ":" THEN ParseFail
                      ELSE LET val == ParseValue(s, SkipWs(s, c + 1))
                           IN  IF ~val.ok THEN ParseFail
                               ELSE LET e == SkipWs(s, val.i)
                                        kv2 == DictSet(kv, key.v.s, val.v)
                                    IN  IF e > Len(s) THEN ParseFail
                                        ELSE IF s[e] = "}" THEN ParseOk(JObj(kv2), e + 1)
                                        ELSE IF s[e] = "," THEN ParseMembers(s, SkipWs(s, e + 1), kv2)
                                        ELSE ParseFail

\* json.loads(s): ok is FALSE where it raises JSONDecodeError
JsonLoads(s) ==
    LET r == ParseValue(s, SkipWs(s, 1))
    IN  IF ~r.ok THEN ParseFail
        ELSE IF SkipWs(s, r.i) # Len(s) + 1 THEN ParseFail
        ELSE r

\* ------------------------------------------------------------------------
\* Requests, prompt templates and stages
\* ------------------------------------------------------------------------

\* The keys generate_strategy documents (lines 155-161).
Fields == {"niche", "stage", "geo", "founder_profile", "constraints", "goals"}

\* The steps of parallel_map in the order the dict is built (lines 106-113).
Stages == <<"problem_map", "market_scan", "personas", "solution_shapes",
            "gtm_ideas", "tech_notes", "ops_notes", "risks_list">>
StageSet == {Stages[i] : i \in 1..Len(Stages)}
StageIndex(s) == CHOOSE i \in 1..Len(Stages) : Stages[i] = s

Lit(a) == [k |-> "lit", v |-> a]
Var(f) == [k |-> "var", v |-> f]

\* The templates of lines 28-75: the literal text between two placeholders
\* is one atom, abbreviated.
problem_prompt ==
    <<Lit("You are a ruthless product discovery expert. Niche: "), Var("niche"),
      Lit("; Geo: "), Var("geo"), Lit("; Stage: "), Var("stage"),
      Lit("; Founder: "), Var("founder_profile"),
      Lit("; Constraints: "), Var("constraints"),
      Lit(". List top 5 concrete problems as JSON")>>
market_prompt ==
    <<Lit("You are a market mapper. Niche: "), Var("niche"), Lit("; Geo: "), Var("geo"),
      Lit(". Produce JSON with keys: segments, competitors, whitespace")>>
personas_prompt ==
    <<Lit("Design 2-3 buyer/user personas for "), Var("niche"), Lit(" in "), Var("geo"),
      Lit(". Return JSON")>>
solutions_prompt_geo ==
    <<Lit("Propose 3 candidate solution shapes for "), Var("niche"), Lit(" in "), Var("geo"),
      Lit(" given constraints: "), Var("constraints"), Lit(". Return JSON")>>
solutions_prompt ==
    <<Lit("Propose 3 candidate solution shapes for "), Var("niche"),
      Lit(" given constraints: "), Var("constraints"), Lit(". Return JSON")>>
gtm_prompt ==
    <<Lit("GTM for "), Var("niche"), Lit(" in "), Var("geo"),
      Lit(". Constraints: "), Var("constraints"), Lit(". Stage: "), Var("stage"),
      Lit(". Return JSON")>>
tech_prompt ==
    <<Lit("Propose an MVP-first architecture for "), Var("niche"),
      Lit(" considering founder skills: "), Var("founder_profile"), Lit(". Return JSON")>>
ops_prompt ==
    <<Lit("Outline ops & compliance for "), Var("niche"), Lit(" in "), Var("geo"),
      Lit(". Stage: "), Var("stage"), Lit(". Return JSON")>>
risks_prompt ==
    <<Lit("List top 8 risks for "), Var("niche"),
      Lit(" with likelihood and mitigation. JSON")>>

\* The prompt of each chain (lines 95-102 and 106-113).
StagePrompt(s) ==
    CASE s = "problem_map" -> problem_prompt
      [] s = "market_scan" -> market_prompt
      [] s = "personas" -> personas_prompt
      [] s = "solution_shapes" -> solutions_prompt
      [] s = "gtm_ideas" -> gtm_prompt
      [] s = "tech_notes" -> tech_prompt
      [] s = "ops_notes" -> ops_prompt
      [] s = "risks_list" -> risks_prompt

\* The model of each chain (lines 95-102).
StageModel(s) == IF s \in {"market_scan", "solution_shapes", "ops_notes"} THEN "gem" ELSE "gpt"

\* The placeholders of a template
TemplateVars(tpl) == {tpl[i].v : i \in {j \in 1..Len(tpl) : tpl[j].k = "var"}}

\* ChatPromptTemplate.invoke on a mapping that holds every placeholder
RECURSIVE Format(_, _)
Format(tpl, inputs) ==
    IF tpl = <<>> THEN <<>>
    ELSE (IF Head(tpl).k = "lit" THEN <<Head(tpl).v>> ELSE inputs[Head(tpl).v])
         \o Format(Tail(tpl), inputs)

\* str(e) of the KeyError raised for a key the mapping lacks
KeyErrorText(f) == <<"KeyError", f>>

\* str(e) of the failure of a provider call
ProviderErrorText(who) == <<"ProviderError", who>>

\* The text a provider returns for a prompt: it repeats the prompt, so that
\* whatever entered the prompt is visible in every later value.
Completion(model, prompt) == <<"completion", model>> \o prompt

\* ------------------------------------------------------------------------
\* Values returned by generate_strategy
\* ------------------------------------------------------------------------

ErrorKey == <<"e", "r", "r", "o", "r">>
RawKey == <<"r", "a", "w">>

\* {"error": "Failed to parse JSON response", "raw": raw_result} (line 192)
ParseErrorResultTruncated(raw_result) ==
    JObj({<<ErrorKey, JStr(<<"Failed to parse JSON response">>)>>,
          <<RawKey, JStr(IF Len(raw_result) > TruncLimit
                         THEN SubSeq(raw_result, 1, TruncLimit) \o <<".", ".", ".">>
                         ELSE raw_result)>>})
ParseErrorResult(raw_result) ==
    JObj({<<ErrorKey, JStr(<<"Failed to parse JSON response">>)>>,
          <<RawKey, JStr(raw_result)>>})

\* {"error": str(e)} (line 195)
ErrorResult(e) == JObj({<<ErrorKey, JStr(e)>>})

\* "error" in strategy (line 199) on a dict; on a string Python tests for
\* a substring
HasErrorKey(v) ==
    CASE v.t = "obj" -> ErrorKey \in DictKeys(v.kv)
      [] v.t = "str" -> Contains(v.s, ErrorKey)
      [] OTHER -> FALSE

\* ------------------------------------------------------------------------
\* State
\* ------------------------------------------------------------------------

VARIABLES
    req,        \* req[c]: the inputs mapping of call c
    down,       \* the models (gpt, gem) that refuse every call of this run
    pc,         \* pc[c]: where call c is in generate_strategy
    st,         \* st[c][s]: the step s of parallel_map in call c
    sent,       \* sent[c][s]: the prompt given to the model of step s
    ncalls,     \* ncalls[c][s]: model calls issued by step s
    out,        \* out[c][s]: the text step s returned, or str(e) of its failure
    synthIn,    \* synthIn[c]: the mapping given to synthesis_prompt
    nsynth,     \* nsynth[c]: synthesis calls issued
    raw,        \* raw[c]: raw_result
    cleaned,    \* cleaned[c]: cleaned_result
    result,     \* result[c]: the value returned by generate_strategy
    failure     \* failure[c]: what failed in call c ("none" while nothing has)

vars == <<req, down, pc, st, sent, ncalls, out, synthIn, nsynth, raw, cleaned, result, failure>>

CallIds == DOMAIN pc

NoMapping == [f \in {} |-> <<>>]

\* ------------------------------------------------------------------------
\* Inputs: requests and synthesis texts
\* ------------------------------------------------------------------------

\* The inputs of run_strategy.py (lines 13-20), one atom per value.
BaseRequest ==
    [niche |-> <<"AI agents for ecommerce">>,
     stage |-> <<"MVP">>,
     geo |-> <<"Pakistan">>,
     founder_profile |-> <<"AI graduate">>,
     constraints |-> <<"budget constraints">>,
     goals |-> <<"working MVP">>]

\* Two geographies, the second extending the first.
Geos == {<<"Pakistan">>, <<"Pakistan", ", South Asia">>}

Without(r, f) == [k \in (DOMAIN r) \ {f} |-> r[k]]

\* A mapping with all six keys, or with one of them missing.
FullRequests == {[BaseRequest EXCEPT !.geo = g] : g \in Geos}
PartialRequests == {Without(BaseRequest, f) : f \in Fields}

Q == "\""

\* {"a":"x","m":{"g":1}} and {"error":1}
DocA == <<"{", Q, "a", Q, ":", Q, "x", Q, ",", Q, "m", Q, ":", "{", Q, "g", Q, ":", "1", "}", "}">>
DocError == <<"{", Q, "e", "r", "r", "o", "r", Q, ":", "1", "}">>

Pieces == {Opener, Closer, <<" ">>, <<"\n">>, <<"\f">>, DocA, DocError, <<"1">>, <<Q>>}

RECURSIVE TextsUpTo(_)
TextsUpTo(n) ==
    IF n = 0 THEN {<<>>}
    ELSE LET prev == TextsUpTo(n - 1) IN prev \cup {t \o p : t \in prev, p \in Pieces}

\* Texts around the length at which the diagnostic print truncates.
LongTexts == {[i \in 1..n |-> "x"] : n \in {TruncLimit, TruncLimit + 1}}

\* What the synthesis call may return.
SynthTexts == TextsUpTo(MaxPieces) \cup LongTexts

\* What it may return to each of two concurrent calls: a document, the
\* document fenced, a document with an "error" key, and no document.
ConcSynthTexts == {DocA, Opener \o <<"\n">> \o DocA \o <<"\n">> \o Closer, DocError, <<"1", " ", "1">>}

\* ------------------------------------------------------------------------
\* Initial states
\* ------------------------------------------------------------------------

InitCalls(ids, requests, outages) ==
    /\ req \in [ids -> requests]
    /\ down \in outages
    /\ pc = [c \in ids |-> "call"]
    /\ st = [c \in ids |-> [s \in StageSet |-> "idle"]]
    /\ sent = [c \in ids |-> [s \in StageSet |-> <<>>]]
    /\ ncalls = [c \in ids |-> [s \in StageSet |-> 0]]
    /\ out = [c \in ids |-> [s \in StageSet |-> <<>>]]
    /\ synthIn = [c \in ids |-> NoMapping]
    /\ nsynth = [c \in ids |-> 0]
    /\ raw = [c \in ids |-> <<>>]
    /\ cleaned = [c \in ids |-> <<>>]
    /\ result = [c \in ids |-> JNone]
    /\ failure = [c \in ids |-> "none"]

\* One call, on a mapping that may lack a key.
Init == InitCalls({1}, {BaseRequest} \cup PartialRequests, {{}})

\* ------------------------------------------------------------------------
\* generate_strategy
\* ------------------------------------------------------------------------

\* The first key of ks, taken in order, that the mapping lacks (<<>>: none).
RECURSIVE FirstMissing(_, _)
FirstMissing(ks, inputs) ==
    IF ks = <<>> THEN <<>>
    ELSE IF Head(ks) \notin DOMAIN inputs THEN <<Head(ks)>>
    ELSE FirstMissing(Tail(ks), inputs)

\* Lines 166-169: the banner reads inputs['niche'], ['geo'], ['stage']
\* before the try block; a KeyError raised here leaves generate_strategy.
Banner(c) ==
    /\ pc[c] = "call"
    /\ LET miss == FirstMissing(<<"niche", "geo", "stage">>, req[c])
       IN  IF miss = <<>>
           THEN /\ pc' = [pc EXCEPT ![c] = "fanout"]
                /\ failure' = failure
           ELSE /\ pc' = [pc EXCEPT ![c] = "raised"]
                /\ failure' = [failure EXCEPT ![c] = "config"]
    /\ UNCHANGED <<req, down, st, sent, ncalls, out, synthIn, nsynth, raw, cleaned, result>>

\* What RunnableParallel hands to each of its steps: the mapping it was
\* invoked with (line 173 through lines 105-115).
StepInputChained(c, s) ==
    IF StageIndex(s) = 1 THEN req[c]
    ELSE [req[c] EXCEPT !.niche = out[c][Stages[StageIndex(s) - 1]]]
StepInput(c, s) == req[c]

\* The number of model calls after one more (prompt | model | to_str
\* invokes its model once, lines 95-102).
Invoked(n) == n + 1

\* A step of parallel_map starts on a pool thread: it formats its prompt
\* and calls its model; a placeholder the mapping lacks fails the step.
StageStart(c, s) ==
    /\ pc[c] = "fanout"
    /\ st[c][s] = "idle"
    /\ LET tpl == StagePrompt(s)
           inputs == StepInput(c, s)
           miss == TemplateVars(tpl) \ DOMAIN inputs
       IN  IF miss = {}
           THEN /\ st' = [st EXCEPT ![c][s] = "running"]
                /\ sent' = [sent EXCEPT ![c][s] = Format(tpl, inputs)]
                /\ ncalls' = [ncalls EXCEPT ![c][s] = Invoked(@)]
                /\ out' = out
           ELSE /\ st' = [st EXCEPT ![c][s] = "failed"]
                /\ out' = [out EXCEPT ![c][s] = KeyErrorText(CHOOSE f \in miss : TRUE)]
                /\ UNCHANGED <<sent, ncalls>>
    /\ UNCHANGED <<req, down, pc, synthIn, nsynth, raw, cleaned, result, failure>>

\* The model of a step returns its text.
StageReturn(c, s) ==
    /\ pc[c] = "fanout"
    /\ st[c][s] = "running"
    /\ StageModel(s) \notin down
    /\ st' = [st EXCEPT ![c][s] = "ok"]
    /\ out' = [out EXCEPT ![c][s] = Completion(StageModel(s), sent[c][s])]
    /\ UNCHANGED <<req, down, pc, sent, ncalls, synthIn, nsynth, raw, cleaned, result, failure>>

\* The model of a step raises.
StageFail(c, s) ==
    /\ pc[c] = "fanout"
    /\ st[c][s] = "running"
    /\ st' = [st EXCEPT ![c][s] = "failed"]
    /\ out' = [out EXCEPT ![c][s] = ProviderErrorText(s)]
    /\ UNCHANGED <<req, down, pc, sent, ncalls, synthIn, nsynth, raw, cleaned, result, failure>>

\* RunnableParallel.invoke returns or raises once the pool has shut down,
\* and the pool shuts down once every submitted step has ended.
JoinedAny(c) == \E s \in StageSet : st[c][s] \in {"ok", "failed"}
Joined(c) == \A s \in StageSet : st[c][s] \in {"ok", "failed"}

\* The steps that raised; future.result() is read in the order of the dict,
\* so the first of them is the one invoke raises.
FailuresIgnored(c) == {}
Failures(c) == {s \in StageSet : st[c][s] = "failed"}
FirstFailure(c) == Stages[Min({StageIndex(s) : s \in Failures(c)})]

\* The mapping the lambda of lines 122-137 builds.
MergeOrder == <<"niche", "stage", "geo", "founder_profile", "constraints", "goals">>
MergeShared(c) ==
    [k \in Fields \cup StageSet |->
        IF k \in Fields THEN req[c][k] ELSE out[Min(CallIds)][k]]
Merge(c) ==
    [k \in Fields \cup StageSet |->
        IF k \in Fields THEN req[c][k] ELSE out[c][k]]

\* Lines 118-142 after parallel_map, inside the try of line 171: a step
\* that raised ends the call in the handler of line 193; otherwise the
\* lambda builds the synthesis input and the synthesis call is issued.
Join(c) ==
    /\ pc[c] = "fanout"
    /\ Joined(c)
    /\ IF Failures(c) # {}
       THEN /\ result' = [result EXCEPT ![c] = ErrorResult(out[c][FirstFailure(c)])]
            /\ failure' = [failure EXCEPT ![c] = "stage"]
            /\ pc' = [pc EXCEPT ![c] = "done"]
            /\ UNCHANGED <<synthIn, nsynth>>
       ELSE LET miss == FirstMissing(MergeOrder, req[c])
            IN  IF miss # <<>>
                THEN /\ result' = [result EXCEPT ![c] = ErrorResult(KeyErrorText(miss[1]))]
                     /\ failure' = [failure EXCEPT ![c] = "merge"]
                     /\ pc' = [pc EXCEPT ![c] = "done"]
                     /\ UNCHANGED <<synthIn, nsynth>>
                ELSE /\ synthIn' = [synthIn EXCEPT ![c] = Merge(c)]
                     /\ nsynth' = [nsynth EXCEPT ![c] = @ + 1]
                     /\ pc' = [pc EXCEPT ![c] = "synth"]
                     /\ UNCHANGED <<result, failure>>
    /\ UNCHANGED <<req, down, st, sent, ncalls, out, raw, cleaned>>

\* The synthesis call returns text: raw_result is bound (line 173).
SynthReturn(c, texts) ==
    /\ pc[c] = "synth"
    /\ \E text \in texts : raw' = [raw EXCEPT ![c] = text]
    /\ pc' = [pc EXCEPT ![c] = "clean"]
    /\ UNCHANGED <<req, down, st, sent, ncalls, out, synthIn, nsynth, cleaned, result, failure>>

\* The synthesis call raises: the handler of line 193.
SynthFail(c) ==
    /\ pc[c] = "synth"
    /\ result' = [result EXCEPT ![c] = ErrorResult(ProviderErrorText("synthesis"))]
    /\ failure' = [failure EXCEPT ![c] = "synth"]
    /\ pc' = [pc EXCEPT ![c] = "done"]
    /\ UNCHANGED <<req, down, st, sent, ncalls, out, synthIn, nsynth, raw, cleaned>>

\* Lines 176-192: clean up, parse, return the document or the parse error.
Normalize(c) ==
    /\ pc[c] = "clean"
    /\ LET cleaned_result == CleanUp(raw[c])
           strategy == JsonLoads(cleaned_result)
       IN  /\ cleaned' = [cleaned EXCEPT ![c] = cleaned_result]
           /\ IF strategy.ok
              THEN /\ result' = [result EXCEPT ![c] = strategy.v]
                   /\ failure' = failure
              ELSE /\ result' = [result EXCEPT ![c] = ParseErrorResult(raw[c])]
                   /\ failure' = [failure EXCEPT ![c] = "parse"]
    /\ pc' = [pc EXCEPT ![c] = "done"]
    /\ UNCHANGED <<req, down, st, sent, ncalls, out, synthIn, nsynth, raw>>

\* A step of parallel_map from its start to its end as one step: it
\* formats its prompt, calls its model and ends with the text or the failure.
StageRun(c, s) ==
    /\ pc[c] = "fanout"
    /\ st[c][s] = "idle"
    /\ LET tpl == StagePrompt(s)
           inputs == StepInput(c, s)
           miss == TemplateVars(tpl) \ DOMAIN inputs
       IN  IF miss # {}
           THEN /\ st' = [st EXCEPT ![c][s] = "failed"]
                /\ out' = [out EXCEPT ![c][s] = KeyErrorText(CHOOSE f \in miss : TRUE)]
                /\ UNCHANGED <<sent, ncalls>>
           ELSE /\ sent' = [sent EXCEPT ![c][s] = Format(tpl, inputs)]
                /\ ncalls' = [ncalls EXCEPT ![c][s] = Invoked(@)]
                /\ IF StageModel(s) \in down
                   THEN /\ st' = [st EXCEPT ![c][s] = "failed"]
                        /\ out' = [out EXCEPT ![c][s] = ProviderErrorText(s)]
                   ELSE /\ st' = [st EXCEPT ![c][s] = "ok"]
                        /\ out' = [out EXCEPT ![c][s] =
                                      Completion(StageModel(s), Format(tpl, inputs))]
    /\ UNCHANGED <<req, down, pc, synthIn, nsynth, raw, cleaned, result, failure>>

DoBanner == \E c \in CallIds : Banner(c)
DoStageStart == \E c \in CallIds, s \in StageSet : StageStart(c, s)
DoStageReturn == \E c \in CallIds, s \in StageSet : StageReturn(c, s)
DoStageFail == \E c \in CallIds, s \in StageSet : StageFail(c, s)
DoStageRun == \E c \in CallIds, s \in StageSet : StageRun(c, s)
DoJoin == \E c \in CallIds : Join(c)
DoSynthReturn == \E c \in CallIds : SynthReturn(c, SynthTexts)
DoSynthReturnConc == \E c \in CallIds : SynthReturn(c, ConcSynthTexts)
DoSynthFail == \E c \in CallIds : SynthFail(c)
DoNormalize == \E c \in CallIds : Normalize(c)

\* One call of generate_strategy; every provider call may fail.
Next ==
    \/ DoBanner
    \/ DoStageStart
    \/ DoStageReturn
    \/ DoStageFail
    \/ DoJoin
    \/ DoSynthReturn
    \/ DoSynthFail
    \/ DoNormalize

Spec == Init /\ [][Next]_vars

\* Two calls of generate_strategy in flight on the one module-level
\* final_chain (line 148), on requests that differ in geo alone.  A stage
\* call fails exactly when its model is down.
InitConc ==
    /\ InitCalls({1, 2}, FullRequests, {{}, {"gem"}})
    /\ req[1].geo = <<"Pakistan">>
    /\ req[2].geo # req[1].geo

NextConc ==
    \/ DoBanner
    \/ DoStageRun
    \/ DoJoin
    \/ DoSynthReturnConc
    \/ DoSynthFail
    \/ DoNormalize

SpecConc == InitConc /\ [][NextConc]_vars

\* ------------------------------------------------------------------------
\* Properties
\* ------------------------------------------------------------------------

Settled(c) == pc[c] = "done"

\* Call c went through the clean-up and the parse of lines 176-184.
Normalized(c) == Settled(c) /\ nsynth[c] = 1 /\ failure[c] \in {"none", "parse"}

\* The text under the "error" key and under the "raw" key of a result
ErrorText(v) == DictGet(v.kv, ErrorKey).s
RawText(v) == DictGet(v.kv, RawKey).s

\* C1: the synthesis call of a request is issued only once all eight stage
\* calls have ended, each with a text, and the synthesis input carries the
\* text of every one of the eight stages, never a subset of them.
SynthesisAfterAllStages ==
    \A c \in CallIds :
        nsynth[c] > 0 =>
            /\ \A s \in StageSet : st[c][s] = "ok" /\ out[c][s] # <<>>
            /\ DOMAIN synthIn[c] = Fields \cup StageSet
            /\ \A s \in StageSet : synthIn[c][s] = out[c][s]

\* The synthesis call of call 1 is in flight.
SynthesisIssued == pc[1] = "synth" /\ nsynth[1] = 1

\* C2: on a request with all six fields every stage calls its model exactly
\* once (also when another stage fails), with the prompt that is its own
\* template filled from the request's fields, holding no other stage's output.
EachStageOnceOwnFields ==
    \A c \in CallIds :
        DOMAIN req[c] = Fields =>
            /\ \A s \in StageSet : ncalls[c][s] <= 1
            /\ pc[c] \in {"synth", "clean", "done"} => \A s \in StageSet : ncalls[c][s] = 1
            /\ \A s \in StageSet :
                  ncalls[c][s] > 0 =>
                      /\ sent[c][s] = Format(StagePrompt(s), req[c])
                      /\ \A f \in TemplateVars(StagePrompt(s)) : Contains(sent[c][s], req[c][f])
                      /\ \A s2 \in StageSet \ {s} :
                            out[c][s2] # <<>> => ~Contains(sent[c][s], out[c][s2])

\* A full request whose call ended on a stage failure after all eight model calls.
AllStagesCalledOnce ==
    /\ DOMAIN req[1] = Fields
    /\ Settled(1) /\ failure[1] = "stage"
    /\ \A s \in StageSet : ncalls[1][s] = 1

\* C3: when a stage call fails, the request ends with {"error": <text of a
\* failed stage>} (of the failed stage when it is the only one), without a
\* "raw" key; the synthesis call is never issued and no stage output is in
\* the returned value.
StageFailureAborts ==
    \A c \in CallIds :
        LET failed == {s \in StageSet : st[c][s] = "failed"}
        IN  failed # {} =>
                /\ nsynth[c] = 0
                /\ Settled(c) =>
                      /\ result[c].t = "obj"
                      /\ DictKeys(result[c].kv) = {ErrorKey}
                      /\ ErrorText(result[c]) \in {out[c][s] : s \in failed}
                      /\ \A s \in StageSet :
                            st[c][s] = "ok" => ~Contains(ErrorText(result[c]), out[c][s])

\* One stage failed, the other seven returned a text, and the call has ended.
OneStageFailed ==
    /\ Settled(1)
    /\ Cardinality({s \in StageSet : st[1][s] = "failed"}) = 1
    /\ Cardinality({s \in StageSet : st[1][s] = "ok"}) = 7
    /\ ErrorText(result[1]) = ProviderErrorText("gtm_ideas")

\* C4: no failure leaves generate_strategy as an exception: every call ends
\* by returning a value.
EveryFailureRecovered == \A c \in CallIds : pc[c] # "raised"

\* C5 (as claimed): after a parse failure the "raw" field is the synthesis
\* text cut to its first 500 characters plus an ellipsis when it is longer.
ParseErrorRawTruncated ==
    \A c \in CallIds :
        (Settled(c) /\ failure[c] = "parse") =>
            RawText(result[c]) = RawText(ParseErrorResultTruncated(raw[c]))

\* C5 (amended): after a parse failure the result is {"error": "Failed to
\* parse JSON response", "raw": <the whole synthesis text>}, whatever the
\* length of the text.
ParseErrorRawWhole ==
    \A c \in CallIds :
        (Settled(c) /\ failure[c] = "parse") =>
            /\ result[c].t = "obj"
            /\ DictKeys(result[c].kv) = {ErrorKey, RawKey}
            /\ ErrorText(result[c]) = <<"Failed to parse JSON response">>
            /\ RawText(result[c]) = raw[c]

\* A parse failure on a text longer than the truncation length.
LongTextParseFailure ==
    Settled(1) /\ failure[1] = "parse" /\ Len(raw[1]) > TruncLimit

\* The documents d of which the text is a fenced copy: whitespace, the
\* opener, whitespace, d, whitespace, the closer, whitespace.
FencedDocs(text) ==
    LET outer == PyStrip(text)
    IN  IF ~(StartsWith(outer, Opener) /\ EndsWith(outer, Closer)
             /\ Len(outer) >= Len(Opener) + Len(Closer))
        THEN {}
        ELSE LET inner == SubSeq(outer, Len(Opener) + 1, Len(outer) - Len(Closer))
                 core == {i \in 1..Len(inner) : inner[i] \notin PyWhitespace}
             IN  IF core = {} THEN {}
                 ELSE {d \in {SubSeq(inner, i, j) : i \in 1..Min(core), j \in Max(core)..Len(inner)} :
                          JsonLoads(d).ok}

\* C6: when all nine calls succeed and the synthesis text is a well-formed
\* document d inside a ```json fence, or d itself, generate_strategy returns
\* the value of parsing d.
FencedDocumentParsesAsItself ==
    \A c \in CallIds :
        (Settled(c) /\ nsynth[c] = 1 /\ failure[c] # "synth") =>
            /\ \A d \in FencedDocs(raw[c]) : result[c] = JsonLoads(d).v
            /\ JsonLoads(raw[c]).ok => result[c] = JsonLoads(raw[c]).v

\* A fenced document with whitespace around it was returned as its value.
FencedDocumentReturned ==
    /\ Settled(1) /\ failure[1] = "none"
    /\ raw[1] = Opener \o <<"\n">> \o DocA \o Closer
    /\ result[1] = JsonLoads(DocA).v

\* C7 (as claimed): cleaning up the cleaned text changes nothing.
CleanUpIdempotent ==
    \A c \in CallIds : Normalized(c) => CleanUp(cleaned[c]) = cleaned[c]

\* C7 (amended): cleaning up the cleaned text changes nothing when the
\* cleaned text does not itself begin with the opener or end with the closer.
CleanUpIdempotentOnce ==
    \A c \in CallIds :
        (Normalized(c) /\ ~StartsWith(cleaned[c], Opener) /\ ~EndsWith(cleaned[c], Closer))
            => CleanUp(cleaned[c]) = cleaned[c]

\* A fenced text was cleaned to a text without fences.
FenceStripped ==
    /\ Normalized(1)
    /\ StartsWith(PyStrip(raw[1]), Opener) /\ EndsWith(PyStrip(raw[1]), Closer)
    /\ cleaned[1] # <<>>
    /\ ~StartsWith(cleaned[1], Opener) /\ ~EndsWith(cleaned[1], Closer)

\* C10: the returned value has an "error" key exactly when something failed
\* in the call.
ErrorKeyIffFailed ==
    \A c \in CallIds : Settled(c) => (HasErrorKey(result[c]) <=> failure[c] # "none")

\* Two mappings with the same keys that differ in geo and in nothing else
DifferOnlyInGeo(r1, r2) ==
    /\ DOMAIN r1 = Fields /\ DOMAIN r2 = Fields
    /\ r1.geo # r2.geo
    /\ \A f \in Fields \ {"geo"} : r1[f] = r2[f]

\* C8: for two requests that differ in geo alone, solution_shapes, tech_notes
\* and risks_list send the same prompt for both, and each of the other five
\* stages sends a prompt holding its own request's geo, so the two differ.
GeoOnlyWhereReferenced ==
    \A c1, c2 \in CallIds :
        DifferOnlyInGeo(req[c1], req[c2]) =>
            \A s \in StageSet :
                (ncalls[c1][s] > 0 /\ ncalls[c2][s] > 0) =>
                    IF s \in {"solution_shapes", "tech_notes", "risks_list"}
                    THEN sent[c1][s] = sent[c2][s]
                    ELSE /\ Contains(sent[c1][s], req[c1].geo)
                         /\ Contains(sent[c2][s], req[c2].geo)
                         /\ sent[c1][s] # sent[c2][s]

\* Both calls have sent every stage prompt, on requests that differ in geo alone.
BothCallsSentAllPrompts ==
    /\ DifferOnlyInGeo(req[1], req[2])
    /\ \A c \in CallIds, s \in StageSet : ncalls[c][s] = 1

\* One step of parallel_map run on its own on the mapping r.
StageOutcome(r, dn, s) ==
    LET tpl == StagePrompt(s)
        miss == TemplateVars(tpl) \ DOMAIN r
    IN  IF miss # {} THEN [ok |-> FALSE, text |-> KeyErrorText(CHOOSE f \in miss : TRUE)]
        ELSE IF StageModel(s) \in dn THEN [ok |-> FALSE, text |-> ProviderErrorText(s)]
        ELSE [ok |-> TRUE, text |-> Completion(StageModel(s), Format(tpl, r))]

\* What generate_strategy returns for the mapping r, which holds the banner's
\* keys, when it runs alone: the steps in order, then the merge, the
\* synthesis call (which fails or returns a text) and the parse.
RunAlone(r, dn, synthOk, synthText) ==
    LET failed == {i \in 1..Len(Stages) : ~StageOutcome(r, dn, Stages[i]).ok}
        miss == FirstMissing(MergeOrder, r)
        parsed == JsonLoads(CleanUp(synthText))
    IN  IF failed # {} THEN ErrorResult(StageOutcome(r, dn, Stages[Min(failed)]).text)
        ELSE IF miss # <<>> THEN ErrorResult(KeyErrorText(miss[1]))
        ELSE IF ~synthOk THEN ErrorResult(ProviderErrorText("synthesis"))
        ELSE IF parsed.ok THEN parsed.v
        ELSE ParseErrorResult(synthText)

\* C9: with two calls in flight, the synthesis input of each holds its own
\* request's fields and the eight stage texts produced from its own request,
\* and each call returns what it returns when run alone on the same model
\* responses.
CallsDoNotInterfere ==
    \A c \in CallIds :
        /\ nsynth[c] > 0 =>
              synthIn[c] = [k \in Fields \cup StageSet |->
                               IF k \in Fields THEN req[c][k]
                               ELSE StageOutcome(req[c], down, k).text]
        /\ Settled(c) => result[c] = RunAlone(req[c], down, failure[c] # "synth", raw[c])

\* Call 2 has issued its synthesis call while call 1 is in the middle of its
\* fan-out.
CallsOverlap ==
    /\ pc[1] = "fanout"
    /\ \E s1, s2 \in StageSet : st[1][s1] = "ok" /\ st[1][s2] = "idle"
    /\ pc[2] = "synth" /\ nsynth[2] = 1

=============================================================================
